---------------------------- MODULE Spec2Model ----------------------------
(***************************************************************************)
(* Articles website: slug assignment and uniqueness (helpers.py,           *)
(* blueprints/admin.py), tag normalisation (helpers.py), the article       *)
(* store with its unique slug column (models.py), the listings, the reads  *)
(* and the feed (blueprints/main.py) and the accounts (blueprints/auth.py).*)
(*                                                                         *)
(* Text is a sequence of characters.  A character is a one-character       *)
(* string; a code point outside ASCII is written by its name ("U+00E9").   *)
(* An optional value is None (the empty tuple) or Some(v) (the 1-tuple).   *)
(***************************************************************************)
EXTENDS Integers, Sequences, FiniteSets, TLC

\* ------------------------------------------------------------------ bounds

\* Largest article identifier the store hands out in a run of requests
\* handled one at a time.
MaxId == 3

\* Largest article identifier the store hands out in a run of requests
\* handled one at a time that all carry one title.
MaxDeepId == 4

\* Largest article identifier the store hands out in a run of requests
\* handled concurrently.
MaxConcId == 2

\* Longest raw tag string enumerated for the tag normaliser.
MaxRawLen == 5

\* Longest title enumerated for slugify.
MaxTitleLen == 4

\* Largest article identifier of the stores listed.
MaxListId == 3

\* Largest page number requested of a listing.
MaxPage == 3

\* Largest article identifier the store hands out in a run over every
\* route.
MaxSiteId == 2

\* Largest user identifier the user table hands out.
MaxUserId == 1

\* Largest user identifier the user table hands out to registrations
\* handled concurrently.
MaxRegId == 2

\* ------------------------------------------------------- program constants

\* Length(max=200) on ArticleForm.title.
TitleMaxLen == 200

\* Config.ARTICLES_PER_PAGE, when the environment does not set it.
ARTICLES_PER_PAGE == 10

\* feed(): limit(20), and a.body[:200].
FeedLimit == 20
FeedDescLen == 200

\* Length(min=6) on RegisterForm.password.
PasswordMinLen == 6

\* ---------------------------------------------------------------- text

None == << >>
Some(v) == << v >>

SetMin(S) == CHOOSE x \in S : \A y \in S : x <= y
SetMax(S) == CHOOSE x \in S : \A y \in S : x >= y

UpperLetters ==
    << "A", "B", "C", "D", "E", "F", "G", "H", "I", "J", "K", "L", "M",
       "N", "O", "P", "Q", "R", "S", "T", "U", "V", "W", "X", "Y", "Z" >>
LowerLetters ==
    << "a", "b", "c", "d", "e", "f", "g", "h", "i", "j", "k", "l", "m",
       "n", "o", "p", "q", "r", "s", "t", "u", "v", "w", "x", "y", "z" >>
Digits == << "0", "1", "2", "3", "4", "5", "6", "7", "8", "9" >>

Range(s) == { s[i] : i \in 1..Len(s) }

\* str.isspace(): the characters str.strip() removes and \s matches.
\* U+00A0 (no-break space) is whitespace for both.
IsSpace(c) == c \in { " ", "\t", "\n", "U+00A0" }

\* \w of a str pattern on ASCII text: letters, digits, underscore.
IsWord(c) == c \in Range(UpperLetters) \cup Range(LowerLetters) \cup Range(Digits) \cup { "_" }

\* str.lower() on one character: ASCII capitals, and U+00C9 (E acute).
LowerChar(c) ==
    IF c \in Range(UpperLetters)
    THEN LowerLetters[CHOOSE i \in 1..26 : UpperLetters[i] = c]
    ELSE IF c = "U+00C9" THEN "U+00E9" ELSE c

\* str.lower()
lower(s) == [ i \in 1..Len(s) |-> LowerChar(s[i]) ]

\* str.strip(): drop leading and trailing whitespace.
strip(s) ==
    LET keep == { i \in 1..Len(s) : ~IsSpace(s[i]) }
    IN  IF keep = {} THEN << >> ELSE SubSeq(s, SetMin(keep), SetMax(keep))

\* str.split(sep) for a one-character separator: "".split(",") is [""].
RECURSIVE split(_, _)
split(s, sep) ==
    LET at == { i \in 1..Len(s) : s[i] = sep }
    IN  IF at = {} THEN << s >>
        ELSE LET k == SetMin(at)
             IN  << SubSeq(s, 1, k - 1) >> \o split(SubSeq(s, k + 1, Len(s)), sep)

\* sep.join(parts)
RECURSIVE join(_, _)
join(sep, parts) ==
    IF parts = << >> THEN << >>
    ELSE IF Len(parts) = 1 THEN parts[1]
    ELSE parts[1] \o sep \o join(sep, Tail(parts))

\* str(n) for n >= 0: the decimal digits, most significant first.
RECURSIVE IntToStr(_)
IntToStr(n) ==
    IF n < 10 THEN << Digits[n + 1] >>
    ELSE IntToStr(n \div 10) \o << Digits[(n % 10) + 1] >>

\* ------------------------------------------------------------- slugify

\* normalize("NFKD", c).encode("ascii", "ignore"): an accented letter keeps
\* its base letter, the no-break space becomes a space, a code point with
\* no ASCII decomposition is dropped.
nfkd_ascii(c) ==
    CASE c = "U+00E9" -> << "e" >>
      [] c = "U+00C9" -> << "E" >>
      [] c = "U+00A0" -> << " " >>
      [] c = "U+65E5" -> << >>
      [] OTHER        -> << c >>

RECURSIVE to_ascii(_)
to_ascii(s) ==
    IF s = << >> THEN << >> ELSE nfkd_ascii(Head(s)) \o to_ascii(Tail(s))

\* re.sub(r"[^\w\s-]", "", text)
drop_symbols(s) == SelectSeq(s, LAMBDA c : IsWord(c) \/ IsSpace(c) \/ c = "-")

IsSep(c) == c = "-" \/ IsSpace(c)

\* re.sub(r"[-\s]+", "-", text): every maximal run of hyphens and
\* whitespace becomes one hyphen.
RECURSIVE collapse(_)
collapse(s) ==
    IF s = << >> THEN << >>
    ELSE IF IsSep(Head(s))
         THEN IF Len(s) > 1 /\ IsSep(s[2])
              THEN collapse(Tail(s))
              ELSE << "-" >> \o collapse(Tail(s))
         ELSE << Head(s) >> \o collapse(Tail(s))

Post == << "p", "o", "s", "t" >>

\* Mutant of slugify: no fallback for an empty result.
slugify_nofallback(text) == collapse(lower(strip(drop_symbols(to_ascii(text)))))

slugify(text) ==
    LET t1 == to_ascii(text)
        t2 == lower(strip(drop_symbols(t1)))
        t3 == collapse(t2)
    IN  IF t3 = << >> THEN Post ELSE t3

\* ------------------------------------------------------ normalize_tags

\* Mutant of tags_loop: the piece is not stripped.
RECURSIVE tags_loop_nostrip(_, _, _)
tags_loop_nostrip(pieces, seen, result) ==
    IF pieces = << >> THEN result
    ELSE LET t == lower(Head(pieces))
         IN  IF t = << >> \/ t \in seen
             THEN tags_loop_nostrip(Tail(pieces), seen, result)
             ELSE tags_loop_nostrip(Tail(pieces), seen \cup { t }, Append(result, t))

\* Mutant of tags_loop: seen holds the pieces as written, not lowercased.
RECURSIVE tags_loop_rawseen(_, _, _)
tags_loop_rawseen(pieces, seen, result) ==
    IF pieces = << >> THEN result
    ELSE LET t == strip(Head(pieces))
         IN  IF t = << >> \/ t \in seen
             THEN tags_loop_rawseen(Tail(pieces), seen, result)
             ELSE tags_loop_rawseen(Tail(pieces), seen \cup { t },
                                    Append(result, lower(t)))

\* The loop of normalize_tags: seen gates the insertion into result.
RECURSIVE tags_loop(_, _, _)
tags_loop(pieces, seen, result) ==
    IF pieces = << >> THEN result
    ELSE LET t == lower(strip(Head(pieces)))
         IN  IF t = << >> \/ t \in seen
             THEN tags_loop(Tail(pieces), seen, result)
             ELSE tags_loop(Tail(pieces), seen \cup { t }, Append(result, t))

CommaSpace == << ",", " " >>

\* Mutant of normalize_tags: the field is stripped and stored as written.
normalize_tags_striponly(tags) == IF tags = None THEN << >> ELSE strip(tags[1])

\* tags is optional text: None or Some(text).
normalize_tags(tags) ==
    IF tags = None \/ tags[1] = << >> THEN << >>
    ELSE join(CommaSpace, tags_loop(split(tags[1], ","), {}, << >>))

\* ------------------------------------------------------------ the store

\* The request slots: each handles one request at a time.
Req == { "r1", "r2" }

\* flask_login's current_user: not logged in, logged in, logged in with
\* User.is_admin set.
Users == { "anonymous", "member", "admin" }
is_authenticated(u) == u # "anonymous"

\* Mutant of is_admin: every logged-in user passes.
is_admin_any_login(u) == u # "anonymous"

is_admin(u) == u = "admin"

\* form.title.data, form.body.data, form.tags.data of a submitted ArticleForm:
\* the values the requests of a run are drawn from.
\* ids: the identifiers a request may name and the store may hand out;
\* history: whether the run records the history of successive creates.
HelloWorld == << "H", "e", "l", "l", "o", " ", "W", "o", "r", "l", "d" >>
HelloWorld2 == << "h", "e", "l", "l", "o", " ", "w", "o", "r", "l", "d", " ", "2" >>
Blank == << " " >>

SeqInputs ==
    [ titles |-> { HelloWorld, HelloWorld2, Blank },
      bodies |-> { << "x" >> },
      tags   |-> { None },
      ids    |-> 1..MaxId,
      history |-> TRUE ]
DeepInputs ==
    [ titles |-> { HelloWorld, Blank },
      bodies |-> { << "x" >> },
      tags   |-> { None },
      ids    |-> 1..MaxDeepId,
      history |-> FALSE ]
ConcInputs ==
    [ titles |-> { << " " >> \o HelloWorld, Blank },
      bodies |-> { << "x" >> },
      tags   |-> { None },
      ids    |-> 1..MaxConcId,
      history |-> FALSE ]

VARIABLES
    store,      \* the article table: id -> [title, body, tags, slug]
    pc,         \* slot -> "idle" | "resolve" | "commit" | "done"
    loc,        \* slot -> the locals of the request it handles
    resp,       \* slot -> the response of its request, and the exception behind it
    hist,       \* the current run of successive creates of one title (history)
    tags_raw,   \* normalize_tags: the argument
    tags_once,  \* normalize_tags(tags_raw)
    tags_twice, \* normalize_tags(tags_once)
    tpc,        \* normalize_tags: "off" | "raw" | "once" | "twice"
    who,        \* slot -> current_user of the request it handles
    title_in,   \* slugify: the argument
    slug_out,   \* slugify(title_in)
    spc,        \* slugify: "off" | "raw" | "done"
    lres,       \* the listing request being answered, with its response
    view,       \* the read request being answered, with its response
    users,      \* the user table: id -> [email, password_hash, is_admin]
    reg         \* slot -> the registration request it handles

vars == << store, pc, loc, resp, hist, tags_raw, tags_once, tags_twice, tpc,
           who, title_in, slug_out, spc, lres, view, users, reg >>
tagVars == << tags_raw, tags_once, tags_twice, tpc >>
slugVars == << title_in, slug_out, spc >>
readVars == << lres, view, users, reg >>

NoLoc ==
    [ op |-> "none", title |-> << >>, body |-> << >>, tags |-> << >>,
      id |-> 0, loaded |-> None, base |-> << >>, slug |-> << >>, n |-> 2,
      checked |-> << >> ]
NoHist == [ title |-> << >>, slugs |-> << >> ]

\* A response: what the client gets (status), and the exception that ended
\* the request, if one did.
Response(status, fault) == [ status |-> status, fault |-> fault ]
NoResponse == Response("none", "none")

Slugs(st) == { st[i].slug : i \in DOMAIN st }

\* Mutant of UniqueViolation: the column is not declared unique.
NoUniqueConstraint(st, id, slug) == FALSE

\* Mutant of UniqueViolation: only an UPDATE is checked, not an INSERT.
UniqueOnUpdateOnly(st, id, slug) ==
    id # 0 /\ \E j \in DOMAIN st : j # id /\ st[j].slug = slug

\* Article.slug is unique=True: an INSERT or UPDATE that would give row id
\* a slug another row holds is refused with IntegrityError.
UniqueViolation(st, id, slug) ==
    \E j \in DOMAIN st : j # id /\ st[j].slug = slug

\* Mutant of FreshIds: the key of an existing row may be handed out again.
ReusedIds(st, ids) == ids

\* The primary key of a new row: above every identifier in the table
\* (SQLite's max(rowid)+1, or the next value of a sequence).
FreshIds(st, ids) == { i \in ids : \A j \in DOMAIN st : j < i }

\* Mutant of Conflict: the query filters on the title column.
ConflictOnTitle(st, slug, existing_id) ==
    \E i \in DOMAIN st :
        st[i].title = slug /\ (existing_id # 0 => i # existing_id)

\* Article.query.filter_by(slug=slug)[.filter(Article.id != existing_id)]
\* .first() is not None.  "if existing_id:" treats None and 0 alike.
Conflict(st, slug, existing_id) ==
    \E i \in DOMAIN st :
        st[i].slug = slug /\ (existing_id # 0 => i # existing_id)

\* Mutant of Suffixed: the suffix is one too small (n starts at 1).
SuffixedFromOne(base, n) == base \o << "-" >> \o IntToStr(n - 1)

\* f"{base}-{n}"
Suffixed(base, n) == base \o << "-" >> \o IntToStr(n)

\* Mutant of NextSuffix: n += 2.
NextSuffixSkip(n) == n + 2

\* Mutant of NextSuffix: n is not advanced.
NextSuffixStuck(n) == n

\* n += 1
NextSuffix(n) == n + 1

\* form.validate_on_submit(): a POST whose title and body pass DataRequired
\* and whose title passes Length(max=200).
validate_on_submit(submitted, title, body) ==
    /\ submitted
    /\ strip(title) # << >>
    /\ Len(title) <= TitleMaxLen
    /\ strip(body) # << >>

IsPrefix(p, s) == Len(p) <= Len(s) /\ SubSeq(s, 1, Len(p)) = p

\* The request of slot r ends with this response.
Finish(r, response) ==
    /\ pc' = [pc EXCEPT ![r] = "done"]
    /\ loc' = [loc EXCEPT ![r] = NoLoc]
    /\ resp' = [resp EXCEPT ![r] = response]

\* An unhandled exception: the framework answers 500.
Unhandled(fault) == Response("server_error", fault)

\* admin_required: login_required, then abort(403) for a non-admin.
Refused(r, u) ==
    /\ ~is_admin(u)
    /\ Finish(r, Response(IF is_authenticated(u) THEN "forbidden" ELSE "unauthorized",
                          "none"))
    /\ UNCHANGED << store, hist >>

\* The locals of create() and edit() when unique_slug is entered.
Locals(op, title, body, tags, id, loaded) ==
    [ op |-> op, title |-> strip(title), body |-> strip(body),
      tags |-> normalize_tags(tags), id |-> id, loaded |-> loaded,
      base |-> slugify(strip(title)), slug |-> slugify(strip(title)),
      n |-> 2, checked |-> << >> ]

\* create(), up to the call of unique_slug.
BeginCreate(r, in) ==
    /\ pc[r] = "idle"
    /\ \E u \in Users, submitted \in BOOLEAN, title \in in.titles,
          body \in in.bodies, tags \in in.tags :
        /\ who' = [who EXCEPT ![r] = u]
        /\ \/ Refused(r, u)
           \/ /\ is_admin(u)
              /\ ~validate_on_submit(submitted, title, body)
              /\ Finish(r, Response("form", "none"))
              /\ UNCHANGED << store, hist >>
           \/ /\ is_admin(u)
              /\ validate_on_submit(submitted, title, body)
              /\ loc' = [loc EXCEPT ![r] = Locals("create", title, body, tags, 0, None)]
              /\ pc' = [pc EXCEPT ![r] = "resolve"]
              /\ UNCHANGED << store, resp, hist >>
    /\ UNCHANGED << tagVars, slugVars, readVars >>

\* edit(article_id), up to the call of unique_slug.
BeginEdit(r, in) ==
    /\ pc[r] = "idle"
    /\ \E u \in Users, id \in in.ids, submitted \in BOOLEAN,
          title \in in.titles, body \in in.bodies, tags \in in.tags :
        /\ who' = [who EXCEPT ![r] = u]
        /\ \/ Refused(r, u)
           \/ /\ is_admin(u)
              /\ id \notin DOMAIN store
              /\ Finish(r, Response("not_found", "none"))
              /\ UNCHANGED << store, hist >>
           \/ /\ is_admin(u)
              /\ id \in DOMAIN store
              /\ ~validate_on_submit(submitted, title, body)
              /\ Finish(r, Response("form", "none"))
              /\ UNCHANGED << store, hist >>
           \/ /\ is_admin(u)
              /\ id \in DOMAIN store
              /\ validate_on_submit(submitted, title, body)
              /\ loc' = [loc EXCEPT ![r] =
                           Locals("edit", title, body, tags, id, Some(store[id]))]
              /\ pc' = [pc EXCEPT ![r] = "resolve"]
              /\ UNCHANGED << store, resp, hist >>
    /\ UNCHANGED << tagVars, slugVars, readVars >>

\* One pass of the while loop of unique_slug: query the candidate, return
\* it when no other article holds it, else move to the next suffix.
Lookup(r) ==
    /\ pc[r] = "resolve"
    /\ LET l == loc[r]
           seen == Append(l.checked, l.slug)
       IN  IF ~Conflict(store, l.slug, l.id)
           THEN /\ loc' = [loc EXCEPT ![r].checked = seen]
                /\ pc' = [pc EXCEPT ![r] = "commit"]
           ELSE /\ loc' = [loc EXCEPT ![r].checked = seen,
                                      ![r].slug = Suffixed(l.base, l.n),
                                      ![r].n = NextSuffix(l.n)]
                /\ pc' = pc
    /\ UNCHANGED << store, resp, hist, who, tagVars, slugVars, readVars >>

\* The history of successive creates, after a create of title stored slug
\* in table st.
HistAfterCreate(st, title, slug) ==
    IF hist.slugs # << >> /\ hist.title = title
    THEN [hist EXCEPT !.slugs = Append(@, slug)]
    ELSE IF \A s \in Slugs(st) : ~IsPrefix(slugify(title), s)
         THEN [title |-> title, slugs |-> << slug >>]
         ELSE NoHist

\* create(): db.session.add(article); db.session.commit().
CommitCreate(r, in) ==
    /\ pc[r] = "commit"
    /\ loc[r].op = "create"
    /\ LET l == loc[r]
           row == [title |-> l.title, body |-> l.body, tags |-> l.tags,
                   slug |-> l.slug]
       IN  IF UniqueViolation(store, 0, l.slug)
           THEN /\ Finish(r, Unhandled("IntegrityError"))
                /\ UNCHANGED << store, hist >>
           ELSE \E id \in FreshIds(store, in.ids) :
                /\ store' = (id :> row) @@ store
                /\ hist' = IF in.history THEN HistAfterCreate(store, l.title, l.slug) ELSE NoHist
                /\ Finish(r, Response("redirect", "none"))
    /\ UNCHANGED << who, tagVars, slugVars, readVars >>

\* The columns of the loaded article that the request changed: the UPDATE
\* the session flushes sets these and no other.
Dirty(l) ==
    { f \in { "title", "body", "tags", "slug" } : l[f] # l.loaded[1][f] }

\* edit(): db.session.commit() of the changed article.
CommitEdit(r) ==
    /\ pc[r] = "commit"
    /\ loc[r].op = "edit"
    /\ LET l == loc[r]
           dirty == Dirty(l)
       IN  IF dirty = {}
           THEN /\ Finish(r, Response("redirect", "none"))
                /\ UNCHANGED << store, hist >>
           ELSE IF l.id \notin DOMAIN store
           THEN /\ Finish(r, Unhandled("StaleDataError"))
                /\ UNCHANGED << store, hist >>
           ELSE IF "slug" \in dirty /\ UniqueViolation(store, l.id, l.slug)
           THEN /\ Finish(r, Unhandled("IntegrityError"))
                /\ UNCHANGED << store, hist >>
           ELSE /\ store' = [store EXCEPT ![l.id] =
                               [ f \in DOMAIN @ |->
                                   IF f \in dirty THEN l[f] ELSE @[f] ]]
                /\ hist' = NoHist
                /\ Finish(r, Response("redirect", "none"))
    /\ UNCHANGED << who, tagVars, slugVars, readVars >>

\* A store fault other than a constraint violation (the connection drops, the
\* database is locked) in a query or in the commit: it propagates unhandled.
StoreFault(r) ==
    /\ pc[r] \in { "resolve", "commit" }
    /\ Finish(r, Unhandled("OperationalError"))
    /\ UNCHANGED << store, hist, who, tagVars, slugVars, readVars >>

\* delete(article_id)
Delete(r, in) ==
    /\ pc[r] = "idle"
    /\ \E u \in Users, id \in in.ids :
        /\ who' = [who EXCEPT ![r] = u]
        /\ \/ Refused(r, u)
           \/ /\ is_admin(u)
              /\ id \notin DOMAIN store
              /\ Finish(r, Response("not_found", "none"))
              /\ UNCHANGED << store, hist >>
           \/ /\ is_admin(u)
              /\ id \in DOMAIN store
              /\ store' = [ i \in DOMAIN store \ { id } |-> store[i] ]
              /\ hist' = NoHist
              /\ Finish(r, Response("redirect", "none"))
    /\ UNCHANGED << tagVars, slugVars, readVars >>

\* The response leaves; the slot takes the next request.
Respond(r) ==
    /\ pc[r] = "done"
    /\ pc' = [pc EXCEPT ![r] = "idle"]
    /\ resp' = [resp EXCEPT ![r] = NoResponse]
    /\ who' = [who EXCEPT ![r] = "none"]
    /\ UNCHANGED << store, loc, hist, tagVars, slugVars, readVars >>

Step(r, in) ==
    \/ BeginCreate(r, in)
    \/ BeginEdit(r, in)
    \/ Lookup(r)
    \/ CommitCreate(r, in)
    \/ CommitEdit(r)
    \/ StoreFault(r)
    \/ Delete(r, in)
    \/ Respond(r)

\* No request in flight.
SlotsInit ==
    /\ pc = [ r \in Req |-> "idle" ]
    /\ loc = [ r \in Req |-> NoLoc ]
    /\ resp = [ r \in Req |-> NoResponse ]
    /\ hist = NoHist
    /\ who = [ r \in Req |-> "none" ]

\* db.create_all(): an empty article table; no request in flight.
StoreInit ==
    /\ store = << >>
    /\ SlotsInit

\* No listing or read request is being answered.
NoList == [ route |-> "none" ]
NoView == [ route |-> "none" ]

\* No registration request is handled by the slot.
NoReg ==
    [ pc |-> "idle", current_user |-> "none", submitted |-> << >>,
      email |-> << >>, password_hash |-> << >>,
      status |-> "none", fault |-> "none" ]

\* No pure function is being applied outside a request.
TagsOff ==
    /\ tags_raw = None
    /\ tags_once = << >>
    /\ tags_twice = << >>
    /\ tpc = "off"
SlugOff ==
    /\ title_in = << >>
    /\ slug_out = << >>
    /\ spc = "off"
ReadsOff ==
    /\ lres = NoList
    /\ view = NoView
    /\ users = << >>
    /\ reg = [ r \in Req |-> NoReg ]

Init ==
    /\ StoreInit
    /\ SlugOff
    /\ ReadsOff
    /\ tags_raw = None
    /\ tags_once = << >>
    /\ tags_twice = << >>
    /\ tpc = "off"

\* Requests handled concurrently (several workers on one store).
Next == \E r \in Req : Step(r, ConcInputs)

Spec == Init /\ [][Next]_vars

\* One request at a time (one synchronous worker).
SeqNext == Step("r1", SeqInputs)

SeqSpec == Init /\ [][SeqNext]_vars

\* One request at a time, every title the same, a larger store.
DeepNext == Step("r1", DeepInputs)

DeepSpec == Init /\ [][DeepNext]_vars

\* ------------------------------------------------- normalize_tags, applied

\* The characters of the raw tag strings enumerated.
TagAlphabet == { "A", "a", "b", ",", " " }

\* The example of the specification: "Go, go, PYTHON, python, Go".
GoExample ==
    << "G", "o", ",", " ", "g", "o", ",", " ", "P", "Y", "T", "H", "O", "N",
       ",", " ", "p", "y", "t", "h", "o", "n", ",", " ", "G", "o" >>
GoPython == << "g", "o", ",", " ", "p", "y", "t", "h", "o", "n" >>

\* The arguments normalize_tags is applied to: absent, every text over the
\* alphabet up to the length bound, and the example.
RawTags ==
    { None, Some(GoExample) }
        \cup { Some(s) : s \in UNION { [1..n -> TagAlphabet] : n \in 0..MaxRawLen } }

TagInit ==
    /\ StoreInit
    /\ tags_raw \in RawTags
    /\ tags_once = << >>
    /\ tags_twice = << >>
    /\ tpc = "raw"
    /\ SlugOff
    /\ ReadsOff

\* normalize_tags(raw)
TagNormalize ==
    /\ tpc = "raw"
    /\ tags_once' = normalize_tags(tags_raw)
    /\ tpc' = "once"
    /\ UNCHANGED << store, pc, loc, resp, hist, who, tags_raw, tags_twice, slugVars, readVars >>

\* normalize_tags of the result
TagRenormalize ==
    /\ tpc = "once"
    /\ tags_twice' = normalize_tags(Some(tags_once))
    /\ tpc' = "twice"
    /\ UNCHANGED << store, pc, loc, resp, hist, who, tags_raw, tags_once, slugVars, readVars >>

TagNext == TagNormalize \/ TagRenormalize

TagSpec == TagInit /\ [][TagNext]_vars

\* ------------------------------------------------------- slugify, applied

\* The characters of the titles enumerated: a small and a capital letter, a
\* hyphen, a space, a symbol, and a code point with no ASCII decomposition.
SlugAlphabet == { "a", "B", "-", " ", "!", "U+65E5" }

\* Titles of the words "post" and "Post", and an accented title with a
\* no-break space.
PostTitle == << "p", "o", "s", "t" >>
PostCapital == << "P", "o", "s", "t" >>
Accented == << "U+00C9", "U+00A0", "x" >>

\* The arguments slugify is applied to: every text over the alphabet up to
\* the length bound, and the titles above.
RawTitles ==
    { PostTitle, PostCapital, Accented, HelloWorld }
        \cup UNION { [1..n -> SlugAlphabet] : n \in 0..MaxTitleLen }

SlugInit ==
    /\ StoreInit
    /\ TagsOff
    /\ ReadsOff
    /\ title_in \in RawTitles
    /\ slug_out = << >>
    /\ spc = "raw"

\* slugify(title)
SlugApply ==
    /\ spc = "raw"
    /\ slug_out' = slugify(title_in)
    /\ spc' = "done"
    /\ UNCHANGED << store, pc, loc, resp, hist, who, title_in, tagVars, readVars >>

SlugNext == SlugApply

SlugSpec == SlugInit /\ [][SlugNext]_vars

\* ------------------------------------------------------------- listings

\* LIKE: "%" matches any run of characters, "_" any one character, every
\* other character itself.
RECURSIVE like(_, _)
like(pattern, text) ==
    IF pattern = << >> THEN text = << >>
    ELSE IF Head(pattern) = "%"
         THEN \/ like(Tail(pattern), text)
              \/ text # << >> /\ like(pattern, Tail(text))
         ELSE /\ text # << >>
              /\ Head(pattern) = "_" \/ Head(pattern) = Head(text)
              /\ like(Tail(pattern), Tail(text))

\* column.ilike(pattern): lower(column) LIKE lower(pattern).
ilike(column, pattern) == like(lower(pattern), lower(column))

\* f"%{tag}%", f"%{q}%"
Wrapped(f) == << "%" >> \o f \o << "%" >>

\* The filter of the query of a listing route, on one row.
Matches(route, arg, row) ==
    CASE route = "articles" -> TRUE
      [] route = "by_tag"   -> ilike(row.tags, Wrapped(arg))
      [] route = "search"   -> \/ ilike(row.title, Wrapped(arg))
                               \/ ilike(row.body, Wrapped(arg))

\* .order_by(Article.id.desc())
RECURSIVE order_by_id_desc(_)
order_by_id_desc(ids) ==
    IF ids = {} THEN << >>
    ELSE << SetMax(ids) >> \o order_by_id_desc(ids \ { SetMax(ids) })

\* .offset(offset).limit(limit).all()
offset_limit(rows, offset, limit) ==
    IF offset >= Len(rows) THEN << >>
    ELSE SubSeq(rows, offset + 1,
                IF offset + limit < Len(rows) THEN offset + limit ELSE Len(rows))

\* Mutant of PageOffset: the offset of the next page.
PageOffsetNext(page, per_page) == page * per_page

\* (page - 1) * per_page
PageOffset(page, per_page) == (page - 1) * per_page

\* Mutant of HasNext: a last page that is full has a next page.
HasNextInclusive(page, per_page, total) == page * per_page <= total

\* has_next = page * per_page < total
HasNext(page, per_page, total) == page * per_page < total

\* The query, the count and the page of a listing route.
Paginate(st, route, arg, page, per_page) ==
    LET query == order_by_id_desc({ i \in DOMAIN st : Matches(route, arg, st[i]) })
        total == Len(query)
    IN  [ total    |-> total,
          items    |-> offset_limit(query, PageOffset(page, per_page), per_page),
          has_prev |-> page > 1,
          has_next |-> HasNext(page, per_page, total) ]

\* request.args.get(name, default=default, type=int)
ArgOr(arg, default) == IF arg = None THEN default ELSE arg[1]

\* Mutant of search_q: the query parameter is not stripped.
search_q_nostrip(arg) == IF arg = None THEN << >> ELSE arg[1]

\* (request.args.get("q", "") or "").strip()
search_q(arg) == IF arg = None THEN << >> ELSE strip(arg[1])

\* The listing request answered and its response: the route and its
\* parameters, what is rendered (the page, the fragment of the infinite
\* scroll, a redirect), whether the store was queried, and the page.
Listed(route, raw, arg, page, per_page, status, queried, result) ==
    [ route |-> route, raw |-> raw, arg |-> arg, page |-> page,
      per_page |-> per_page, status |-> status,
      location |-> IF status = "redirect" THEN "main.articles" ELSE "none",
      queried |-> queried,
      total |-> result.total, items |-> result.items,
      has_prev |-> result.has_prev, has_next |-> result.has_next ]

NoPage == [ total |-> 0, items |-> << >>, has_prev |-> FALSE, has_next |-> FALSE ]

\* No request is being handled.
Quiet ==
    /\ \A r \in Req : pc[r] = "idle"
    /\ lres = NoList
    /\ view = NoView

\* A listing route: the page, or the fragment when partial=1 or HX-Request
\* is sent.
Listing(route, raw, arg, in) ==
    \E page_arg \in in.pages, per_page_arg \in in.per_pages, partial \in BOOLEAN :
        LET page == ArgOr(page_arg, 1)
            per_page == ArgOr(per_page_arg, ARTICLES_PER_PAGE)
        IN  lres' = Listed(route, raw, arg, page, per_page,
                           IF partial THEN "fragment" ELSE "page", TRUE,
                           Paginate(store, route, arg, page, per_page))

\* articles()
Articles(in) ==
    /\ Quiet
    /\ Listing("articles", None, << >>, in)
    /\ UNCHANGED << store, pc, loc, resp, hist, who, view, users, reg, tagVars, slugVars >>

\* by_tag(tag): the tag is a path segment, never empty.
ByTag(in) ==
    /\ Quiet
    /\ \E tag \in in.tag_args : Listing("by_tag", Some(tag), tag, in)
    /\ UNCHANGED << store, pc, loc, resp, hist, who, view, users, reg, tagVars, slugVars >>

\* search()
Search(in) ==
    /\ Quiet
    /\ \E raw \in in.q_args :
        LET q == search_q(raw)
        IN  IF q = << >>
            THEN lres' = Listed("search", raw, q, 1, ARTICLES_PER_PAGE,
                                "redirect", FALSE, NoPage)
            ELSE Listing("search", raw, q, in)
    /\ UNCHANGED << store, pc, loc, resp, hist, who, view, users, reg, tagVars, slugVars >>

\* The response of a listing route leaves.
ListRespond ==
    /\ lres # NoList
    /\ lres' = NoList
    /\ UNCHANGED << store, pc, loc, resp, hist, who, view, users, reg, tagVars, slugVars >>

ListStep(in) ==
    \/ Articles(in)
    \/ ByTag(in)
    \/ Search(in)
    \/ ListRespond

\* The articles of the stores listed.
Py == << "p", "y" >>
PythonFlask ==
    << "p", "y", "t", "h", "o", "n", ",", " ", "f", "l", "a", "s", "k" >>
KindPython == [ title |-> << "P", "y" >>, body |-> << "x" >>, tags |-> PythonFlask ]
KindGo == [ title |-> << "G", "o" >>, body |-> Py, tags |-> << "g", "o" >> ]
KindPlain == [ title |-> << "a", "_", "b" >>, body |-> << "x" >>, tags |-> << >> ]
Kinds == { KindPython, KindGo, KindPlain }

\* The table that holds, under identifier i, an article of kind kinds[i]:
\* its slug is the one unique_slug gave it, the articles created in the
\* order of their identifiers.
ListStoreOf(kinds) ==
    [ i \in DOMAIN kinds |->
        LET before == Cardinality({ j \in DOMAIN kinds :
                                      j < i /\ kinds[j].title = kinds[i].title })
            base == slugify(kinds[i].title)
        IN  [ title |-> kinds[i].title, body |-> kinds[i].body,
              tags |-> kinds[i].tags,
              slug |-> IF before = 0 THEN base ELSE Suffixed(base, before + 1) ] ]

\* The stores listed: every table of up to MaxListId articles of these
\* kinds, and the table of 23 articles of the pagination example.
ListStores ==
    { ListStoreOf(kinds) :
        kinds \in UNION { [ids -> Kinds] : ids \in SUBSET (1..MaxListId) } }
        \cup { ListStoreOf([ i \in 1..23 |-> KindPython ]) }

\* The parameters of the listing requests: tag, q, page, per_page.
ListInputs ==
    [ tag_args  |-> { Py, << "P", "Y" >>, << "g", "o" >>, << "_" >>, << "%" >> },
      q_args    |-> { None, Some(<< >>), Some(<< " " >>), Some(Py),
                      Some(<< " ", "g", "o" >>), Some(<< "B" >>), Some(<< "_" >>) },
      pages     |-> { None } \cup { Some(p) : p \in 1..MaxPage },
      per_pages |-> { None, Some(1), Some(2) } ]

ListInit ==
    /\ store \in ListStores
    /\ SlotsInit
    /\ TagsOff
    /\ SlugOff
    /\ ReadsOff

ListNext == ListStep(ListInputs)

ListSpec == ListInit /\ [][ListNext]_vars

\* ---------------------------------------------------------------- reads

\* An article body is a sequence of characters and of HTML tags, a tag
\* being one element ("<script>").  The tags of the bodies enumerated:
BodyTags == { "<script>", "</script>", "<b>", "</b>", "<p>", "</p>" }

\* Of these, the tags _ALLOWED_TAGS holds (bleach's defaults and the
\* additions of helpers.py).
AllowedTags == { "<b>", "</b>", "<p>", "</p>" }

\* text.replace("&", "&amp;"); Markdown writes a bare ampersand so too.
RECURSIVE escape_amp(_)
escape_amp(text) ==
    IF text = << >> THEN << >>
    ELSE << IF Head(text) = "&" THEN "&amp;" ELSE Head(text) >> \o escape_amp(Tail(text))

\* markdown.markdown(text): a paragraph of the text; raw HTML passes.
markdown(text) ==
    IF strip(text) = << >> THEN << >>
    ELSE << "<p>" >> \o escape_amp(text) \o << "</p>" >>

\* Mutant of bleach_clean: nothing is removed.
bleach_clean_nothing(html) == html

\* bleach.clean(html, tags=_ALLOWED_TAGS, ..., strip=True): a tag that is
\* not allowed is removed, its content stays.
bleach_clean(html) ==
    SelectSeq(html, LAMBDA t : t \in BodyTags => t \in AllowedTags)

render_markdown_safe(text) == bleach_clean(markdown(text))

\* s[:n]
Take(s, n) == IF Len(s) <= n THEN s ELSE SubSeq(s, 1, n)

\* feed(): the description of an item.
feed_desc(body) ==
    escape_amp(Take(body, FeedDescLen)
                \o IF Len(body) > FeedDescLen THEN << "..." >> ELSE << >>)

\* The read request answered and its response: the pieces are what the
\* response carries of article bodies, each with the article it is of.
Viewed(route, status, pieces) ==
    [ route |-> route, status |-> status, pieces |-> pieces ]

\* Article.query.filter_by(slug=slug).first()
BySlug(st, slug) == { i \in DOMAIN st : st[i].slug = slug }

\* article_by_slug(slug) of blueprints/main.py
ArticleBySlug(in) ==
    /\ Quiet
    /\ \E slug \in in.slugs :
        IF BySlug(store, slug) = {}
        THEN view' = Viewed("article_by_slug", "not_found", << >>)
        ELSE \E i \in BySlug(store, slug) :
                view' = Viewed("article_by_slug", "ok",
                               << [ id |-> i,
                                    html |-> render_markdown_safe(store[i].body) ] >>)
    /\ UNCHANGED << store, pc, loc, resp, hist, who, lres, users, reg, tagVars, slugVars >>

\* article_by_slug(slug) of create_app (articles_website/__init__.py)
InlineArticleBySlug(in) ==
    /\ Quiet
    /\ \E slug \in in.slugs :
        IF BySlug(store, slug) = {}
        THEN view' = Viewed("create_app.article_by_slug", "not_found", << >>)
        ELSE \E i \in BySlug(store, slug) :
                view' = Viewed("create_app.article_by_slug", "ok",
                               << [ id |-> i, html |-> markdown(store[i].body) ] >>)
    /\ UNCHANGED << store, pc, loc, resp, hist, who, lres, users, reg, tagVars, slugVars >>

\* feed(): the latest FeedLimit articles, each with its description.
Feed ==
    /\ Quiet
    /\ LET items == offset_limit(order_by_id_desc(DOMAIN store), 0, FeedLimit)
       IN  view' = Viewed("feed", "ok",
                          [ k \in 1..Len(items) |->
                              [ id |-> items[k],
                                html |-> feed_desc(store[items[k]].body) ] ])
    /\ UNCHANGED << store, pc, loc, resp, hist, who, lres, users, reg, tagVars, slugVars >>

\* The response of a read, or of register, login or logout, leaves.
ReadRespond ==
    /\ view # NoView
    /\ view' = NoView
    /\ UNCHANGED << store, pc, loc, resp, hist, who, lres, users, reg, tagVars, slugVars >>

ReadStep(in) ==
    \/ ArticleBySlug(in)
    \/ InlineArticleBySlug(in)
    \/ Feed
    \/ ReadRespond

\* ------------------------------------------------------------- accounts

\* werkzeug's generate_password_hash and check_password_hash: the hash
\* holds its salt and the digest of salt and password.
generate_password_hash(password, salt) ==
    [ salt |-> salt, digest |-> << salt, password >> ]
check_password_hash(hash, password) == hash.digest = << hash.salt, password >>

\* Email(): one "@", a local part, and a domain with a dot inside it.
IsEmail(e) ==
    \E k \in 2..(Len(e) - 1) :
        /\ e[k] = "@"
        /\ \A i \in 1..Len(e) : e[i] = "@" => i = k
        /\ \E d \in (k + 2)..(Len(e) - 1) : e[d] = "."

\* RegisterForm().validate_on_submit()
register_valid(submitted, email, password, confirm) ==
    /\ submitted
    /\ strip(email) # << >> /\ IsEmail(email)
    /\ password # << >> /\ Len(password) >= PasswordMinLen
    /\ confirm # << >> /\ confirm = password

\* LoginForm().validate_on_submit()
login_valid(submitted, email, password) ==
    /\ submitted
    /\ strip(email) # << >> /\ IsEmail(email)
    /\ password # << >>

\* User.query.filter_by(email=email).first()
ByEmail(us, email) == { i \in DOMAIN us : us[i].email = email }

\* register()
Register(in) ==
    /\ Quiet
    /\ \E u \in Users, submitted \in BOOLEAN, email \in in.emails,
          password \in in.passwords, confirm \in in.passwords, salt \in in.salts :
        IF is_authenticated(u)
        THEN view' = Viewed("register", "already", << >>) /\ users' = users
        ELSE IF ~register_valid(submitted, email, password, confirm)
        THEN view' = Viewed("register", "form", << >>) /\ users' = users
        ELSE IF ByEmail(users, lower(email)) # {}
        THEN view' = Viewed("register", "taken", << >>) /\ users' = users
        ELSE \E id \in FreshIds(users, in.user_ids) :
                /\ users' = (id :> [ email |-> lower(email),
                                     password_hash |-> generate_password_hash(password, salt),
                                     is_admin |-> FALSE ]) @@ users
                /\ view' = Viewed("register", "registered", << >>)
    /\ UNCHANGED << store, pc, loc, resp, hist, who, lres, reg, tagVars, slugVars >>

\* login()
Login(in) ==
    /\ Quiet
    /\ \E u \in Users, submitted \in BOOLEAN, email \in in.emails,
          password \in in.passwords :
        view' = Viewed("login",
                       IF is_authenticated(u) THEN "already"
                       ELSE IF ~login_valid(submitted, email, password) THEN "form"
                       ELSE IF \E i \in ByEmail(users, lower(email)) :
                                  check_password_hash(users[i].password_hash, password)
                            THEN "logged_in"
                            ELSE "invalid",
                       << >>)
    /\ UNCHANGED << store, pc, loc, resp, hist, who, lres, users, reg, tagVars, slugVars >>

\* logout(), behind login_required
Logout ==
    /\ Quiet
    /\ \E u \in Users :
        view' = Viewed("logout",
                       IF is_authenticated(u) THEN "logged_out" ELSE "unauthorized",
                       << >>)
    /\ UNCHANGED << store, pc, loc, resp, hist, who, lres, users, reg, tagVars, slugVars >>

AtBC == << "@", "b", ".", "c" >>
Secret == << "s", "e", "c", "r", "e", "t" >>

\* ----------------------------------------- registrations, interleaved

\* Mutant of EmailUniqueViolation: the column is not declared unique.
NoEmailUniqueConstraint(us, email) == FALSE

\* User.email is unique=True: the INSERT of a row whose email another row
\* holds is refused with IntegrityError.  The comparison is the column's,
\* character by character.
EmailUniqueViolation(us, email) ==
    \E j \in DOMAIN us : us[j].email = email

\* The registration of slot r ends with this answer; the email submitted
\* stays on record until the slot is free again.
RegAnswer(r, u, email, status, fault) ==
    reg' = [reg EXCEPT ![r] =
                [ NoReg EXCEPT !.pc = "done", !.current_user = u,
                               !.submitted = email,
                               !.status = status, !.fault = fault ]]

\* register(), up to db.session.add(user): the redirect of a logged-in
\* user, the form, the query by lowercased email, and the new User.
RegisterLookup(r, in) ==
    /\ reg[r].pc = "idle"
    /\ \E u \in Users, submitted \in BOOLEAN, email \in in.emails,
          password \in in.passwords, confirm \in in.passwords, salt \in in.salts :
        IF is_authenticated(u)
        THEN RegAnswer(r, u, email, "already", "none")
        ELSE IF ~register_valid(submitted, email, password, confirm)
        THEN RegAnswer(r, u, email, "form", "none")
        ELSE IF ByEmail(users, lower(email)) # {}
        THEN RegAnswer(r, u, email, "taken", "none")
        ELSE reg' = [reg EXCEPT ![r] =
                        [ NoReg EXCEPT !.pc = "commit", !.current_user = u,
                                       !.submitted = email,
                                       !.email = lower(email),
                                       !.password_hash =
                                           generate_password_hash(password, salt) ]]
    /\ UNCHANGED << store, pc, loc, resp, hist, who, lres, view, users,
                    tagVars, slugVars >>

\* register(): db.session.commit() of the new user, then login_user and
\* the redirect.  No exception is handled.
RegisterCommit(r, in) ==
    /\ reg[r].pc = "commit"
    /\ LET l == reg[r]
           row == [ email |-> l.email, password_hash |-> l.password_hash,
                    is_admin |-> FALSE ]
       IN  IF EmailUniqueViolation(users, l.email)
           THEN /\ RegAnswer(r, l.current_user, l.submitted,
                             "server_error", "IntegrityError")
                /\ users' = users
           ELSE \E id \in FreshIds(users, in.user_ids) :
                /\ users' = (id :> row) @@ users
                /\ RegAnswer(r, l.current_user, l.submitted, "registered", "none")
    /\ UNCHANGED << store, pc, loc, resp, hist, who, lres, view,
                    tagVars, slugVars >>

\* A store fault other than a constraint violation in the commit: it
\* propagates unhandled and the session is rolled back.
RegisterFault(r) ==
    /\ reg[r].pc = "commit"
    /\ RegAnswer(r, reg[r].current_user, reg[r].submitted,
                 "server_error", "OperationalError")
    /\ UNCHANGED << store, pc, loc, resp, hist, who, lres, view, users,
                    tagVars, slugVars >>

\* The response is sent; the slot is free for the next registration.
RegisterRespond(r) ==
    /\ reg[r].pc = "done"
    /\ reg' = [reg EXCEPT ![r] = NoReg]
    /\ UNCHANGED << store, pc, loc, resp, hist, who, lres, view, users,
                    tagVars, slugVars >>

BAtBC == << "b" >> \o AtBC

RegInputs ==
    [ emails    |-> { << "A" >> \o AtBC, << "a" >> \o AtBC, BAtBC, << "a", "b" >> },
      passwords |-> { Secret, << "p", "w" >> },
      salts     |-> { "s1", "s2" },
      user_ids  |-> 1..MaxRegId ]

RegStep(r, in) ==
    \/ RegisterLookup(r, in)
    \/ RegisterCommit(r, in)
    \/ RegisterFault(r)
    \/ RegisterRespond(r)

\* Registrations handled concurrently (several workers on one user table).
RegNext == \E r \in Req : RegStep(r, RegInputs)

RegSpec == Init /\ [][RegNext]_vars

\* ------------------------------------------------------------- the site

\* Every route, one request at a time: the requests that write articles,
\* the listings, the reads and the accounts.
ScriptBody == << "<script>", "x", "</script>", "&", "<b>" >>
GoGoB == << "G", "o", ",", "g", "o", " ", ",", " ", "b" >>
HelloWorldSlug == << "h", "e", "l", "l", "o", "-", "w", "o", "r", "l", "d" >>

SiteInputs ==
    [ titles    |-> { HelloWorld, HelloWorld2, Blank },
      bodies    |-> { ScriptBody },
      tags      |-> { None, Some(GoGoB) },
      ids       |-> 1..MaxSiteId,
      history   |-> FALSE,
      slugs     |-> { HelloWorldSlug, Suffixed(HelloWorldSlug, 2) },
      emails    |-> { << "A" >> \o AtBC, << "a" >> \o AtBC, << "a", "b" >> },
      passwords |-> { Secret, << "p", "w" >> },
      salts     |-> { "s1" },
      user_ids  |-> 1..MaxUserId ]

SiteListInputs ==
    [ tag_args  |-> { << "g", "o" >> },
      q_args    |-> { None, Some(<< "x" >>) },
      pages     |-> { None, Some(2) },
      per_pages |-> { Some(1) } ]

SiteNext ==
    \/ Quiet /\ BeginCreate("r1", SiteInputs)
    \/ Quiet /\ BeginEdit("r1", SiteInputs)
    \/ Quiet /\ Delete("r1", SiteInputs)
    \/ Lookup("r1")
    \/ CommitCreate("r1", SiteInputs)
    \/ CommitEdit("r1")
    \/ StoreFault("r1")
    \/ Respond("r1")
    \/ ListStep(SiteListInputs)
    \/ ReadStep(SiteInputs)
    \/ Register(SiteInputs)
    \/ Login(SiteInputs)
    \/ Logout

SiteSpec == Init /\ [][SiteNext]_vars

\* ---------------------------------------------------------------- claims

\* The slug is held by an article other than id.
Held(slug, id) == \E j \in DOMAIN store : j # id /\ store[j].slug = slug

\* C1: in every reachable state of the store, under any interleaving of
\* create, edit and delete requests, no two distinct articles have the
\* same slug.  (Spec)
C1_SlugUnique ==
    \A i, j \in DOMAIN store : i # j => store[i].slug # store[j].slug

\* Two articles are stored and a commit was refused by the constraint.
C1_Witness ==
    /\ Cardinality(DOMAIN store) = 2
    /\ \E r \in Req : resp[r].fault = "IntegrityError"

\* C2: when unique_slug(T, None) has returned in create, with S the slugs
\* in use, the slug returned is not in S, and it is slugify(T) whenever
\* slugify(T) is not in S.  (SeqSpec)
C2_FreshSlug ==
    \A r \in Req :
        (pc[r] = "commit" /\ loc[r].op = "create") =>
            /\ loc[r].slug \notin Slugs(store)
            /\ slugify(loc[r].title) \notin Slugs(store)
                    => loc[r].slug = slugify(loc[r].title)

\* unique_slug returned a suffixed slug because the base was in use.
C2_Witness ==
    \E r \in Req :
        /\ pc[r] = "commit"
        /\ loc[r].op = "create"
        /\ slugify(loc[r].title) \in Slugs(store)
        /\ loc[r].slug # slugify(loc[r].title)

\* C3: when the base slug is held by an article other than the excluded
\* one, unique_slug returns base-n for the smallest n >= 2 such that no
\* other article holds base-n: a free smaller suffix is reused.  (DeepSpec)
C3_SmallestSuffix ==
    \A r \in Req :
        (pc[r] = "commit" /\ Held(slugify(loc[r].title), loc[r].id)) =>
            \E n \in 2..(Cardinality(DOMAIN store) + 2) :
                /\ loc[r].slug = slugify(loc[r].title) \o << "-" >> \o IntToStr(n)
                /\ ~Held(loc[r].slug, loc[r].id)
                /\ \A m \in 2..(n - 1) :
                      Held(slugify(loc[r].title) \o << "-" >> \o IntToStr(m), loc[r].id)

\* create got base-2, left free by a deletion, while another article
\* holds base-3.
C3_Witness ==
    \E r \in Req :
        /\ pc[r] = "commit"
        /\ loc[r].op = "create"
        /\ loc[r].slug = slugify(loc[r].title) \o << "-", "2" >>
        /\ Held(slugify(loc[r].title) \o << "-", "3" >>, 0)

\* C4: the loop of unique_slug checks base, base-2, base-3, ... in this
\* order, no candidate twice, and has returned after at most (number of
\* stored articles + 1) lookups.  (SeqSpec)
C4_BoundedProbing ==
    \A r \in Req :
        LET c == loc[r].checked
            b == slugify(loc[r].title)
        IN  /\ Len(c) <= Cardinality(DOMAIN store) + 1
            /\ pc[r] = "resolve" => Len(c) <= Cardinality(DOMAIN store)
            /\ \A i \in 1..Len(c) :
                  c[i] = IF i = 1 THEN b ELSE b \o << "-" >> \o IntToStr(i)
            /\ \A i, j \in 1..Len(c) : i # j => c[i] # c[j]

\* The loop returned at its third lookup, with two articles stored.
C4_Witness ==
    \E r \in Req :
        /\ pc[r] = "commit"
        /\ Len(loc[r].checked) = 3
        /\ Cardinality(DOMAIN store) = 2

\* C5: from a store in which no slug begins with slugify(T), the k-th of k
\* successive creates of title T gets slugify(T) for k = 1 and slugify(T)-k
\* after; two articles titled "Hello World" get "hello-world" and
\* "hello-world-2".  (SeqSpec)
C5_SuccessiveCreates ==
    /\ \A k \in 1..Len(hist.slugs) :
          hist.slugs[k] = IF k = 1 THEN slugify(hist.title)
                          ELSE slugify(hist.title) \o << "-" >> \o IntToStr(k)
    /\ (hist.title = HelloWorld /\ Len(hist.slugs) >= 2) =>
          /\ hist.slugs[1] = << "h", "e", "l", "l", "o", "-", "w", "o", "r", "l", "d" >>
          /\ hist.slugs[2] = << "h", "e", "l", "l", "o", "-", "w", "o", "r", "l", "d", "-", "2" >>

\* Three successive creates of "Hello World".
C5_Witness == hist.title = HelloWorld /\ Len(hist.slugs) = 3

\* C6, as claimed: an edit that submits the article's title unchanged
\* leaves the article's slug as it was.  (SeqSpec; the code recomputes the
\* slug and moves the article to a smaller suffix that has become free.)
C6_EditKeepsSlug ==
    [][ \A r \in Req :
          ( /\ pc[r] = "commit"
            /\ loc[r].op = "edit"
            /\ pc'[r] = "done"
            /\ resp'[r].status = "redirect"
            /\ loc[r].id \in DOMAIN store
            /\ loc[r].title = store[loc[r].id].title )
          => store'[loc[r].id].slug = store[loc[r].id].slug ]_vars

\* The request of slot r writes a slug: an INSERT, or an UPDATE that
\* sets the slug column.
C7_WritesSlug(r) ==
    \/ loc[r].op = "create"
    \/ loc[r].op = "edit" /\ loc[r].slug # loc[r].loaded[1].slug

\* C7: a commit that would write a slug another article holds persists
\* nothing (the store is unchanged: no article added, changed or
\* overwritten) and does not end in success; a commit that persists its
\* slug leaves exactly one article with that slug.  (Spec)
C7_ConstraintArbitrates ==
    [][ \A r \in Req :
          (pc[r] = "commit" /\ pc'[r] = "done" /\ C7_WritesSlug(r)) =>
              /\ Held(loc[r].slug, loc[r].id) =>
                    /\ store' = store
                    /\ resp'[r].status # "redirect"
              /\ resp'[r].fault = "IntegrityError" => store' = store
              /\ (store' # store) =>
                    Cardinality({ j \in DOMAIN store' :
                                    store'[j].slug = loc[r].slug }) = 1 ]_vars

\* Of two requests, one was answered with success and the other's commit
\* was refused by the constraint.
C7_Witness ==
    \E r1, r2 \in Req :
        /\ r1 # r2
        /\ resp[r1].status = "redirect"
        /\ resp[r2].fault = "IntegrityError"
        /\ store # << >>

\* C8, as claimed: a request whose commit the uniqueness constraint refused
\* ends in an outcome of its own, distinct from the outcome of a generic
\* store fault or crash.  (Spec; the code lets the exception propagate
\* unhandled, as it does for any store fault, and retries nothing.)
C8_DistinctConflict ==
    \A r \in Req :
        resp[r].fault = "IntegrityError" =>
            resp[r].status # Unhandled("OperationalError").status

\* C9: normalize_tags(normalize_tags(r)) = normalize_tags(r) for every raw
\* input r, absent and empty included.  (TagSpec)
C9_Idempotent == tpc = "twice" => tags_twice = tags_once

\* A raw input that normalisation changed, normalised twice.
C9_Witness ==
    /\ tpc = "twice"
    /\ tags_once # << >>
    /\ tags_raw # Some(tags_once)

\* The comma-separated pieces of s, by the position before each: the cuts
\* are 0, every comma, and the position after the end.
C10_Cuts(s) == { 0, Len(s) + 1 } \cup { i \in 1..Len(s) : s[i] = "," }
C10_Piece(s, a) ==
    lower(strip(SubSeq(s, a + 1, SetMin({ c \in C10_Cuts(s) : c > a }) - 1)))

\* The pieces that are not empty and whose value no earlier piece has.
C10_Firsts(s) ==
    { a \in C10_Cuts(s) \ { Len(s) + 1 } :
        /\ C10_Piece(s, a) # << >>
        /\ \A b \in C10_Cuts(s) \ { Len(s) + 1 } :
              b < a => C10_Piece(s, b) # C10_Piece(s, a) }

RECURSIVE C10_Joined(_, _)
C10_Joined(s, firsts) ==
    IF firsts = {} THEN << >>
    ELSE LET a == SetMin(firsts)
         IN  IF firsts = { a } THEN C10_Piece(s, a)
             ELSE C10_Piece(s, a) \o << ",", " " >> \o C10_Joined(s, firsts \ { a })

\* C10: normalize_tags returns the ", "-join of the trimmed, lowercased,
\* non-empty pieces, later duplicates removed, first occurrences in order;
\* absent or empty input gives the empty string; "Go, go, PYTHON, python,
\* Go" gives "go, python".  (TagSpec)
C10_NormalForm ==
    tpc \in { "once", "twice" } =>
        /\ tags_once = IF tags_raw = None THEN << >>
                       ELSE C10_Joined(tags_raw[1], C10_Firsts(tags_raw[1]))
        /\ tags_raw = Some(GoExample) => tags_once = GoPython

\* The example, normalised.
C10_Witness ==
    /\ tpc = "once"
    /\ tags_raw = Some(GoExample)
    /\ tags_once = GoPython

\* Every character of the title is dropped by the ASCII filter, removed as a
\* symbol, or whitespace: nothing is left once the text is trimmed.
C11_NothingLeft(title) ==
    \A i \in 1..Len(title) :
        \A c \in Range(nfkd_ascii(title[i])) : ~IsWord(c) /\ c # "-"

\* The word characters of a text, in order.
C11_Words(text) == SelectSeq(text, IsWord)

\* C11, as claimed: slugify(T) is never empty, and it is "post" exactly
\* when nothing is left of T after the ASCII filter, the removal of symbols
\* and the trim.  (SlugSpec; the title "post" has the slug "post" too.)
C11_PostExactly ==
    spc = "done" =>
        /\ slug_out # << >>
        /\ slug_out = Post <=> C11_NothingLeft(title_in)

\* C11, amended: slugify(T) is never empty; it is "post" whenever nothing is
\* left of T after the ASCII filter, the removal of symbols and the trim;
\* and when something is left, the word characters of the slug are those of
\* T, lowercased, in order (so the slug is "post" only for a title that
\* spells it).  (SlugSpec)
C11_NonEmptyFallback ==
    spc = "done" =>
        /\ slug_out # << >>
        /\ C11_NothingLeft(title_in) => slug_out = Post
        /\ ~C11_NothingLeft(title_in) =>
              C11_Words(slug_out) = C11_Words(lower(to_ascii(title_in)))

\* A title of symbols and non-ASCII code points only got the fallback.
C11_Witness ==
    /\ spc = "done"
    /\ title_in = << "!", "U+65E5" >>
    /\ slug_out = Post

\* C12, as claimed: slugify(T) contains no whitespace and no two
\* consecutive hyphens, and neither begins nor ends with a hyphen.
\* (SlugSpec; the code trims whitespace only, so a hyphen at either end of
\* the title, or next to the whitespace there, stays.)
C12_NoEdgeHyphens ==
    spc = "done" =>
        /\ \A i \in 1..Len(slug_out) : ~IsSpace(slug_out[i])
        /\ \A i \in 1..(Len(slug_out) - 1) :
              ~(slug_out[i] = "-" /\ slug_out[i + 1] = "-")
        /\ slug_out[1] # "-"
        /\ slug_out[Len(slug_out)] # "-"

\* The articles the filter of the listing answered selects.
C13_Matching ==
    { i \in DOMAIN store : Matches(lres.route, lres.arg, store[i]) }

C13_Min(a, b) == IF a < b THEN a ELSE b

\* The identifiers on page p of the listing answered.
C13_PageIds(p) ==
    Range(Paginate(store, lres.route, lres.arg, p, lres.per_page).items)

\* C13: in every mode, the items of page `page` are the articles the filter
\* selects at positions [(page-1)*per_page, page*per_page) in descending
\* order of identifier: their number is min(per_page, max(0, total -
\* (page-1)*per_page)), item k has exactly (page-1)*per_page + k - 1
\* selected articles with a larger identifier, and no article is on two
\* pages.  (ListSpec)
C13_PageIsSlice ==
    (lres # NoList /\ lres.queried) =>
        LET before == (lres.page - 1) * lres.per_page
            rest == Cardinality(C13_Matching) - before
        IN  /\ Len(lres.items) = C13_Min(lres.per_page, IF rest > 0 THEN rest ELSE 0)
            /\ \A k \in 1..Len(lres.items) :
                  /\ lres.items[k] \in C13_Matching
                  /\ Cardinality({ j \in C13_Matching : j > lres.items[k] })
                        = before + k - 1
            /\ \A p \in 1..(MaxPage + 1) :
                  p # lres.page => C13_PageIds(p) \cap Range(lres.items) = {}

\* The second page, of one article, of a tag listing of three.
C13_Witness ==
    /\ lres # NoList
    /\ lres.route = "by_tag"
    /\ lres.page = 2
    /\ lres.per_page = 2
    /\ lres.total = 3
    /\ Len(lres.items) = 1

\* C14: total is the number of articles the filter selects; has_prev is
\* true exactly when page > 1; has_next is true exactly when a selected
\* article lies after the slice returned (its position in descending order
\* of identifier is beyond page*per_page); of 23 articles by pages of 10,
\* page 1 has 10 items, no previous and a next page, page 3 has 3 items, a
\* previous and no next page.  (ListSpec)
C14_PageMetadata ==
    (lres # NoList /\ lres.queried) =>
        /\ lres.total = Cardinality(C13_Matching)
        /\ lres.has_prev <=> lres.page > 1
        /\ lres.has_next <=>
              \E j \in C13_Matching :
                  Cardinality({ k \in C13_Matching : k >= j })
                      > lres.page * lres.per_page
        /\ (lres.total = 23 /\ lres.per_page = 10 /\ lres.page = 1) =>
              Len(lres.items) = 10 /\ ~lres.has_prev /\ lres.has_next
        /\ (lres.total = 23 /\ lres.per_page = 10 /\ lres.page = 3) =>
              Len(lres.items) = 3 /\ lres.has_prev /\ ~lres.has_next

\* Page 3 of the 23 articles, by pages of 10.
C14_Witness ==
    /\ lres # NoList
    /\ lres.queried
    /\ lres.total = 23
    /\ lres.per_page = 10
    /\ lres.page = 3
    /\ Len(lres.items) = 3

\* The text contains f as a literal substring, ignoring case.
C15_Contains(text, f) ==
    \E i \in 0..(Len(text) - Len(f)) :
        SubSeq(lower(text), i + 1, i + Len(f)) = lower(f)

\* The article matches the filter as the claim states it.
C15_Selected(route, f, row) ==
    CASE route = "articles" -> TRUE
      [] route = "by_tag"   -> C15_Contains(row.tags, f)
      [] route = "search"   -> C15_Contains(row.title, f) \/ C15_Contains(row.body, f)

\* C15, as claimed: tag mode lists exactly the articles whose tags contain
\* the filter string as a literal substring, ignoring case, query mode
\* those whose title or body does, for every filter string; none mode lists
\* every article.  (ListSpec; the code hands the string to LIKE unescaped,
\* where "_" and "%" are wildcards.)
C15_LiteralSubstring ==
    (lres # NoList /\ lres.queried) =>
        LET selected == { i \in DOMAIN store :
                            C15_Selected(lres.route, lres.arg, store[i]) }
        IN  /\ lres.total = Cardinality(selected)
            /\ Range(lres.items) \subseteq selected

\* C16: a search whose q is absent, empty or whitespace only is answered
\* with a redirect to the unfiltered listing and queries nothing; the
\* query of the search route never has an empty filter string.  (ListSpec)
C16_EmptyQueryRedirects ==
    (lres # NoList /\ lres.route = "search") =>
        /\ (lres.raw = None \/ \A i \in 1..Len(lres.raw[1]) : IsSpace(lres.raw[1][i]))
              => /\ lres.status = "redirect"
                 /\ lres.location = "main.articles"
                 /\ ~lres.queried
        /\ lres.queried => lres.arg # << >>

\* A search for a space was redirected.
C16_Witness ==
    /\ lres # NoList
    /\ lres.route = "search"
    /\ lres.raw = Some(<< " " >>)
    /\ lres.status = "redirect"

\* The request of slot r ends in this step.
C17_Ends(r) == pc[r] # "done" /\ pc'[r] = "done"

\* C17: a step changes the article store only as the end of a request
\* of an authenticated admin; the request of an authenticated non-admin
\* ends in the forbidden signal; no request of a non-admin ends in success
\* or changes the store.  (Spec)
C17_AdminOnly ==
    [][ /\ store' # store =>
              \E r \in Req : C17_Ends(r) /\ who'[r] = "admin"
        /\ \A r \in Req :
              (C17_Ends(r) /\ who'[r] = "member") =>
                  resp'[r].status = "forbidden"
        /\ \A r \in Req :
              (C17_Ends(r) /\ who'[r] # "admin") =>
                  /\ store' = store
                  /\ resp'[r].status \in { "forbidden", "unauthorized" } ]_vars

\* A member was refused with articles stored, next to a request of an
\* admin in flight.
C17_Witness ==
    \E r1, r2 \in Req :
        /\ who[r1] = "member"
        /\ resp[r1].status = "forbidden"
        /\ who[r2] = "admin"
        /\ pc[r2] = "commit"
        /\ store # << >>

\* C18, as claimed: whatever a response carries of an article body is
\* render_markdown_safe of that body, and holds no tag the sanitizer
\* removes.  (SiteSpec; feed() writes the body into the description with
\* only "&" escaped, and article_by_slug of create_app renders the Markdown
\* without the sanitizer.)
C18_SanitizedOnly ==
    view # NoView =>
        \A k \in 1..Len(view.pieces) :
            /\ view.pieces[k].html
                  = render_markdown_safe(store[view.pieces[k].id].body)
            /\ \A t \in Range(view.pieces[k].html) :
                  t \in BodyTags => t \in AllowedTags

\* The articles whose edit request commits in this step.
C19_Edited ==
    { loc[r].id : r \in { q \in Req : /\ pc[q] = "commit"
                                      /\ loc[q].op = "edit"
                                      /\ pc'[q] = "done" } }

\* C19: a step changes the slug of an article only as the commit of an edit
\* of that article, which leaves the article under its identifier and
\* changes no other identifier; a create adds an identifier and a delete
\* removes one, every other article staying under its own; a listing, a
\* read, a registration, a login or a logout leaves the article store as it
\* is.  (SiteSpec)
C19_SlugAndIdFrame ==
    [][ /\ \A i \in DOMAIN store \cap DOMAIN store' :
              i \notin C19_Edited => store'[i].slug = store[i].slug
        /\ \A i \in C19_Edited \cap DOMAIN store :
              DOMAIN store' = DOMAIN store
        /\ Cardinality(DOMAIN store \ DOMAIN store') <= 1
        /\ (DOMAIN store # DOMAIN store') =>
              \A i \in DOMAIN store \cap DOMAIN store' : store'[i] = store[i]
        /\ (lres' # lres \/ view' # view \/ users' # users) => store' = store
      ]_vars

\* The edit of one of two articles is about to change its slug.
C19_Witness ==
    \E r \in Req :
        /\ pc[r] = "commit"
        /\ loc[r].op = "edit"
        /\ Cardinality(DOMAIN store) = 2
        /\ loc[r].id \in DOMAIN store
        /\ loc[r].slug # store[loc[r].id].slug

\* The pieces between the commas of a tags field; after the first, a piece
\* begins with the space of the ", " that joins the tags.
C20_Pieces(text) == split(text, ",")
C20_Tag(text, k) ==
    IF k = 1 THEN C20_Pieces(text)[k] ELSE Tail(C20_Pieces(text)[k])

\* The text is empty or a ", "-joined list of lowercase, trimmed, non-empty,
\* pairwise distinct tags.
C20_Canonical(text) ==
    \/ text = << >>
    \/ \A k \in 1..Len(C20_Pieces(text)) :
          /\ C20_Pieces(text)[k] # << >>
          /\ k > 1 => Head(C20_Pieces(text)[k]) = " "
          /\ C20_Tag(text, k) # << >>
          /\ strip(C20_Tag(text, k)) = C20_Tag(text, k)
          /\ lower(C20_Tag(text, k)) = C20_Tag(text, k)
          /\ \A j \in 1..(k - 1) : C20_Tag(text, j) # C20_Tag(text, k)

C21_SameEmail(a, b) == lower(a) = lower(b)

\* No two users have emails that are equal ignoring case.
C21_Distinct ==
    \A i, j \in DOMAIN users :
        i # j => ~C21_SameEmail(users[i].email, users[j].email)

\* A step that answers a registration whose email an existing user holds,
\* ignoring case, answers something other than "registered" and leaves the
\* user table as it was; and no step at all changes or removes a user.
C21_Rejects ==
    /\ \A r \in Req :
          ( /\ reg[r].pc # "done"
            /\ reg'[r].pc = "done"
            /\ \E i \in DOMAIN users :
                  C21_SameEmail(users[i].email, reg'[r].submitted) )
          => /\ reg'[r].status # "registered"
             /\ users' = users
    /\ \A i \in DOMAIN users : i \in DOMAIN users' /\ users'[i] = users[i]

\* C21: in every reachable state of the user table, after any sequence and
\* any interleaving of registration requests, no two users have emails that
\* are equal ignoring case; and a registration whose email matches an
\* existing user's, ignoring case, is rejected, adds no user and changes no
\* existing user.  (RegSpec)
C21_EmailUnique == []C21_Distinct /\ [][C21_Rejects]_vars

\* Two registrations of one address, written "A@b.c" and "a@b.c", both
\* passed the query; one is stored, lowercased, and the commit of the one
\* written with the capital was refused by the unique column.
C21_Witness ==
    \E r \in Req :
        /\ reg[r].pc = "done"
        /\ reg[r].fault = "IntegrityError"
        /\ reg[r].submitted # lower(reg[r].submitted)
        /\ \E i \in DOMAIN users : users[i].email = lower(reg[r].submitted)

=============================================================================
